---- MODULE Spec2Model ----
(***************************************************************************)
(* Model of the SFP transceiver driver, artiq/firmware/libboard_misoc/     *)
(* sfp.rs: the handle (struct SFP), the bus transactions it issues through *)
(* the i2c primitives, and the two cached 256-byte pages.                  *)
(*                                                                         *)
(* Every public operation is one action.  The bus primitives the operation *)
(* issues are recorded, in order and with their outcome, in the variable   *)
(* bus; what the operation returned is recorded in ret.  The outcome of    *)
(* each primitive (error, acknowledge, the bytes the module delivers) is   *)
(* an input of the operation, drawn from the sets defined below.           *)
(***************************************************************************)
EXTENDS Integers, Sequences, FiniteSets

VARIABLES
    hstate,     \* "Unprobed" (before new), "Active" (new returned Ok),
                \* "Absent" (new returned Err), "Panicked"
    idx,        \* the argument `index' given to new
    sfp,        \* the struct SFP: busno, port, address, sfp_data, sfp_diag
    nops,       \* number of operations run on the handle since new
    op,         \* the operation that ran last
    bus,        \* the bus primitives issued by the operation that ran last
    ret,        \* what the operation that ran last returned
    log         \* the lines the operation that ran last gave to the log

vars == <<hstate, idx, sfp, nops, op, bus, ret, log>>

(***************************************************************************)
(* Bound of the model.                                                     *)
(***************************************************************************)
\* public operations run on one handle after its construction
MaxOps == 1

(***************************************************************************)
(* Program constants.                                                      *)
(***************************************************************************)
PageLen == 256
LiveLen == 22
LiveOff == 96
BaseAddress == 160
PortBase == 8
Switch0 == 112
Switch1 == 113
CapByte == 92
ComplByte == 94
AlarmByte == 112
WarnByte == 116
StatusByte == 110
NumAlarms == 10
DumpLen == 255

(***************************************************************************)
(* u8 / u16 arithmetic.                                                    *)
(***************************************************************************)
Pow2(n) == 2 ^ n
\* x >> k
Shr(x, k) == x \div Pow2(k)
\* x & 1
And1(x) == x % 2
\* x | 1
Or1(x) == IF x % 2 = 0 THEN x + 1 ELSE x
\* x as u8
AsU8(x) == x % 256

(***************************************************************************)
(* The handle.                                                             *)
(***************************************************************************)
Zeros(n) == [i \in 0 .. n - 1 |-> 0]

\* an arithmetic overflow in a build that checks overflow
Panic == -1

\* port: 8+index, a u8 addition.  On overflow a build with overflow checks
\* panics and a build without them wraps.
PortOutcomes(index) ==
    IF PortBase + index > 255
    THEN {Panic, AsU8(PortBase + index)}
    ELSE {PortBase + index}

\* let mask: u16 = 1 << self.port.  With port >= 16 a build with overflow
\* checks panics and a build without them shifts by port modulo 16.
MaskOutcomes(port) ==
    IF port >= 16
    THEN {Panic, Pow2(port % 16)}
    ELSE {Pow2(port)}

\* the struct literal of new
NewSFP(port) ==
    [busno |-> 0, port |-> port, address |-> BaseAddress,
     sfp_data |-> Zeros(PageLen), sfp_diag |-> Zeros(PageLen)]

\* Faulty variant: the gate without the address-change flag, bit 2 of byte 92
GateNoAddrChange(data) ==
    \/ And1(Shr(data[CapByte], 6)) = 1
    \/ data[ComplByte] # 0

\* the capability gate of new and read_diagnostic_data
Gate(data) ==
    /\ And1(Shr(data[CapByte], 2)) = 0
    /\ \/ And1(Shr(data[CapByte], 6)) = 1
       \/ data[ComplByte] # 0

(***************************************************************************)
(* Bus primitives.  A primitive is recorded as                             *)
(*   txn  the transaction function that issued it                          *)
(*   op   "switch", "start", "write", "restart", "read", "stop"            *)
(*   a    the switch chip's address (switch), else 0                       *)
(*   v    the byte written (switch, write), the ack flag (read), else 0    *)
(*   res  "ok", "nack" (a write returned Ok(false)) or "err" (Err)         *)
(***************************************************************************)
Prim(o, a, v) == [txn |-> "", op |-> o, a |-> a, v |-> v, res |-> "ok"]

\* Faulty variant: every byte read with acknowledge
ReadPrimsAllAck(n) == [j \in 1 .. n |-> Prim("read", 0, 1)]

\* i2c::read(busno, i < buf_len - 1) for i = 0 .. buf_len - 1
ReadPrims(n) == [j \in 1 .. n |-> Prim("read", 0, IF j - 1 < n - 1 THEN 1 ELSE 0)]

\* Faulty variant: select with the two mask bytes sent to the wrong chips
SelectPlanSwapped(mask) ==
    << Prim("switch", Switch0, AsU8(Shr(mask, 8))),
       Prim("switch", Switch1, AsU8(mask)) >>

\* the primitives of select, in program order
SelectPlan(mask) ==
    << Prim("switch", Switch0, AsU8(mask)),
       Prim("switch", Switch1, AsU8(Shr(mask, 8))) >>

\* Faulty variant: read with a stop and a start in place of the repeated start
ReadPlanStopStart(s, mask, addr, n) ==
    SelectPlan(mask)
    \o << Prim("start", 0, 0),
          Prim("write", 0, s.address),
          Prim("write", 0, addr),
          Prim("stop", 0, 0),
          Prim("start", 0, 0),
          Prim("write", 0, Or1(s.address)) >>
    \o ReadPrims(n)
    \o << Prim("stop", 0, 0) >>

\* the primitives of read, in program order
ReadPlan(s, mask, addr, n) ==
    SelectPlan(mask)
    \o << Prim("start", 0, 0),
          Prim("write", 0, s.address),
          Prim("write", 0, addr),
          Prim("restart", 0, 0),
          Prim("write", 0, Or1(s.address)) >>
    \o ReadPrims(n)
    \o << Prim("stop", 0, 0) >>

\* Faulty variant: read_diag with address+1 in the data phase
ReadDiagPlanPlusOne(s, mask, addr, n) ==
    SelectPlan(mask)
    \o << Prim("start", 0, 0),
          Prim("write", 0, AsU8(s.address + 2)),
          Prim("write", 0, addr),
          Prim("restart", 0, 0),
          Prim("write", 0, Or1(AsU8(s.address + 1))) >>
    \o ReadPrims(n)
    \o << Prim("stop", 0, 0) >>

\* Faulty variant: read_diag without the call of select
ReadDiagPlanNoSelect(s, mask, addr, n) ==
    << Prim("start", 0, 0),
       Prim("write", 0, AsU8(s.address + 2)),
       Prim("write", 0, addr),
       Prim("restart", 0, 0),
       Prim("write", 0, Or1(AsU8(s.address + 2))) >>
    \o ReadPrims(n)
    \o << Prim("stop", 0, 0) >>

\* the primitives of read_diag, in program order
ReadDiagPlan(s, mask, addr, n) ==
    SelectPlan(mask)
    \o << Prim("start", 0, 0),
          Prim("write", 0, AsU8(s.address + 2)),
          Prim("write", 0, addr),
          Prim("restart", 0, 0),
          Prim("write", 0, Or1(AsU8(s.address + 2))) >>
    \o ReadPrims(n)
    \o << Prim("stop", 0, 0) >>

\* the primitives of check_ack, in program order
CheckAckPlan(s, mask) ==
    SelectPlan(mask)
    \o << Prim("start", 0, 0),
          Prim("write", 0, s.address),
          Prim("stop", 0, 0) >>

(***************************************************************************)
(* The outcome of the primitives of one transaction is the input           *)
(*   fail  the position (1-based) of the primitive that returns Err,       *)
(*         NoFail when none does                                           *)
(*   nack  the positions of the writes that return Ok(false)               *)
(*   page  the 256 bytes the addressed module memory holds                 *)
(***************************************************************************)
NoFail == 0

\* Every primitive is called with `?': the first Err ends the function and
\* the primitives after it are not issued.  The bool of a write (the
\* acknowledge) is a value, which `?' does not look at.
ExecOn(t, plan, e) ==
    LET k == IF e.fail \in 1 .. Len(plan) THEN e.fail ELSE NoFail
        last == IF k = NoFail THEN Len(plan) ELSE k
    IN  [ok |-> k = NoFail,
         tr |-> [i \in 1 .. last |->
                    [plan[i] EXCEPT
                        !.txn = t,
                        !.res = IF i = k THEN "err"
                                ELSE IF plan[i].op = "write" /\ i \in e.nack THEN "nack"
                                ELSE "ok"]]]

\* (the plan is evaluated once)
Exec(t, plan, e) == CHOOSE x \in {ExecOn(t, p, e) : p \in {plan}} : TRUE

\* the byte the module delivers for read number i after the register
\* pointer was set to addr (sequential read; the pointer wraps at 256)
DevByte(page, addr, i) == page[(addr + i) % PageLen]

\* number of i2c::read calls of a trace that returned a byte
ReadsDone(tr) == Cardinality({i \in 1 .. Len(tr) : tr[i].op = "read" /\ tr[i].res = "ok"})

\* the buffer after the read loop: *byte = i2c::read(..)? for the bytes read
FilledTo(buf, done, e, addr) ==
    [i \in DOMAIN buf |-> IF i < done THEN DevByte(e.page, addr, i) ELSE buf[i]]

Filled(buf, tr, e, addr) ==
    CHOOSE b \in {FilledTo(buf, done, e, addr) : done \in {ReadsDone(tr)}} : TRUE

(***************************************************************************)
(* The transaction functions.  mask is what 1 << self.port yielded.  Each  *)
(* returns                                                                 *)
(*   st   "ok" (Ok), "err" (Err) or "panic"                                *)
(*   tr   the primitives it issued                                         *)
(***************************************************************************)
BufLen(buf) == Cardinality(DOMAIN buf)

\* what a transaction that ran the primitives x left in the buffer
TxnResult(x, buf, e, addr) ==
    [st |-> IF x.ok THEN "ok" ELSE "err",
     tr |-> x.tr,
     buf |-> Filled(buf, x.tr, e, addr)]

\* fn select(&self) -> Result<(), &str>
Select(mask, e) ==
    IF mask = Panic
    THEN [st |-> "panic", tr |-> << >>]
    ELSE CHOOSE r \in {[st |-> IF x.ok THEN "ok" ELSE "err", tr |-> x.tr] :
                          x \in {Exec("select", SelectPlan(mask), e)}} : TRUE

\* fn read(&self, addr, buf) -> Result<(), &str>
Read(s, mask, addr, buf, e) ==
    IF mask = Panic
    THEN [st |-> "panic", tr |-> << >>, buf |-> buf]
    ELSE CHOOSE r \in {TxnResult(x, buf, e, addr) :
                          x \in {Exec("read", ReadPlan(s, mask, addr, BufLen(buf)), e)}} : TRUE

\* fn read_diag(&self, addr, buf) -> Result<(), &str>
ReadDiag(s, mask, addr, buf, e) ==
    IF mask = Panic
    THEN [st |-> "panic", tr |-> << >>, buf |-> buf]
    ELSE CHOOSE r \in {TxnResult(x, buf, e, addr) :
                          x \in {Exec("read_diag", ReadDiagPlan(s, mask, addr, BufLen(buf)), e)}} : TRUE

\* the value of `ack' in check_ack: what i2c::write(busno, address) returned
AckOf(tr) == \A i \in 1 .. Len(tr) : tr[i].op = "write" => tr[i].res = "ok"

\* pub fn check_ack(&self) -> Result<bool, &str>
CheckAck(s, mask, e) ==
    IF mask = Panic
    THEN [st |-> "panic", tr |-> << >>, ack |-> FALSE]
    ELSE CHOOSE r \in {[st |-> IF x.ok THEN "ok" ELSE "err",
                        tr |-> x.tr,
                        ack |-> x.ok /\ AckOf(x.tr)] :
                          x \in {Exec("check_ack", CheckAckPlan(s, mask), e)}} : TRUE

\* what dump_data makes of the outcome r of read: the Result is dropped
DumpDataWith(s, r) ==
    [st |-> IF r.st = "panic" THEN "panic" ELSE "ok",
     tr |-> r.tr,
     sfp |-> IF r.st = "panic" THEN s ELSE [s EXCEPT !.sfp_data = r.buf],
     val |-> r.buf]

\* pub fn dump_data(&mut self) -> [u8; 256]
DumpData(s, mask, e) ==
    CHOOSE o \in {DumpDataWith(s, r) : r \in {Read(s, mask, 0, Zeros(PageLen), e)}} : TRUE

\* what dump_diag makes of the outcome r of read_diag: the Result is dropped
DumpDiagWith(s, r) ==
    [st |-> IF r.st = "panic" THEN "panic" ELSE "ok",
     tr |-> r.tr,
     sfp |-> IF r.st = "panic" THEN s ELSE [s EXCEPT !.sfp_diag = r.buf],
     val |-> r.buf]

\* pub fn dump_diag(&mut self) -> [u8; 256]
DumpDiag(s, mask, e) ==
    CHOOSE o \in {DumpDiagWith(s, r) : r \in {ReadDiag(s, mask, 0, Zeros(PageLen), e)}} : TRUE

\* Faulty variant: the live values copied to the start of the page
CopyLiveAtZero(diag, live) ==
    [i \in DOMAIN diag |-> IF i < LiveLen THEN live[i] ELSE diag[i]]

\* self.sfp_diag[96..118].clone_from_slice(&sfp_data)
CopyLive(diag, live) ==
    [i \in DOMAIN diag |->
        IF i >= LiveOff /\ i < LiveOff + LiveLen THEN live[i - LiveOff] ELSE diag[i]]

\* Faulty variant: the refresh also clears the cached information page
RefreshWithInfoCleared(s, r) ==
    [st |-> IF r.st = "panic" THEN "panic" ELSE "ok",
     tr |-> r.tr,
     sfp |-> IF r.st = "panic" THEN s
             ELSE [s EXCEPT !.sfp_diag = CopyLive(s.sfp_diag, r.buf),
                            !.sfp_data = Zeros(PageLen)],
     val |-> r.buf]

\* what read_diagnostic_data makes of the outcome r of read_diag
RefreshWith(s, r) ==
    [st |-> IF r.st = "panic" THEN "panic" ELSE "ok",
     tr |-> r.tr,
     sfp |-> IF r.st = "panic" THEN s
             ELSE [s EXCEPT !.sfp_diag = CopyLive(s.sfp_diag, r.buf)],
     val |-> r.buf]

\* pub fn read_diagnostic_data(&mut self) -> [u8; 22]
ReadDiagnosticData(s, mask, e) ==
    IF Gate(s.sfp_data)
    THEN CHOOSE o \in {RefreshWith(s, r) :
                          r \in {ReadDiag(s, mask, LiveOff, Zeros(LiveLen), e)}} : TRUE
    ELSE [st |-> "ok", tr |-> << >>, sfp |-> s, val |-> Zeros(LiveLen)]

(***************************************************************************)
(* The conversions.  An f32 is the number m / 2^e, held as the pair of the *)
(* integers m and e, with m odd or e = 0.                                  *)
(***************************************************************************)
RECURSIVE Norm(_, _)
Norm(m, e) ==
    IF m = 0 THEN [m |-> 0, e |-> 0]
    ELSE IF e > 0 /\ m % 2 = 0 THEN Norm(m \div 2, e - 1)
    ELSE [m |-> m, e |-> e]

\* value[0] as i8
Signed8(b) == IF b >= 128 THEN b - 256 ELSE b

\* Binary long division of v by d: v/d = (q + r/d) / 2^e with 0 <= r < d.
\* It ends when the division is exact or q has the 24 bits of an f32.
RECURSIVE DivBits(_, _, _, _)
DivBits(q, r, e, d) ==
    IF r = 0 \/ q >= Pow2(23)
    THEN [q |-> q, r |-> r, e |-> e]
    ELSE IF 2 * r >= d
         THEN DivBits(2 * q + 1, 2 * r - d, e + 1, d)
         ELSE DivBits(2 * q, 2 * r, e + 1, d)

\* the quotient rounded to the nearest f32, a tie to the even one
RoundEven(x, d) ==
    IF 2 * x.r > d \/ (2 * x.r = d /\ x.q % 2 = 1)
    THEN Norm(x.q + 1, x.e)
    ELSE Norm(x.q, x.e)

\* the f32 division (v as f32) / d, for integers 0 <= v < 2^24 and d > 0
F32Div(v, d) ==
    CHOOSE f \in {RoundEven(x, d) : x \in {DivBits(v \div d, v % d, 0, d)}} : TRUE

\* Faulty variant: the first byte taken as unsigned
TemperatureUnsigned(value) == Norm(value[0] * 256 + value[1], 8)

\* fn temperature_convert(value: &[u8]) -> f32
\* (the sum of an integer in -128 .. 127 and of a multiple of 1/256 below 1
\* is an f32: nothing is rounded)
temperature_convert(value) == Norm(Signed8(value[0]) * 256 + value[1], 8)

\* (value[0] as f32) * 256. + (value[1] as f32): below 2^16, not rounded
Raw16(value) == value[0] * 256 + value[1]

\* fn voltage_convert(value: &[u8]) -> f32
voltage_convert(value) == F32Div(Raw16(value), 10000)

\* fn current_convert(value: &[u8]) -> f32
current_convert(value) == F32Div(Raw16(value), 500)

\* fn power_convert(value: &[u8]) -> f32
power_convert(value) == F32Div(Raw16(value), 10000)

\* &page[a..a+2]
Pair(page, a) == [i \in 0 .. 1 |-> page[a + i]]

(***************************************************************************)
(* The log operations.  A line given to the log is                         *)
(*   lvl   "error", "warn", "debug" or "trace"                            *)
(*   msg   the format string                                               *)
(*   name  the string argument (the name of an alarm), else ""             *)
(*   args  the numeric arguments in order; an f32 gives two, m and e, and  *)
(*         a text field gives its bytes                                    *)
(* Each operation yields the lines it gave to the log and whether it       *)
(* panicked.  All log levels are enabled.                                  *)
(***************************************************************************)
Line(lvl, msg, name, args) == [lvl |-> lvl, msg |-> msg, name |-> name, args |-> args]
Debug(msg, args) == Line("debug", msg, "", args)

\* self.port-8, a u8 subtraction
PortLabels(port) ==
    IF port < PortBase
    THEN {Panic, AsU8(port - PortBase + 256)}
    ELSE {port - PortBase}

alarm ==
    << "Temperature high", "Temperature low", "Vcc high", "Vcc low",
       "TX Bias high", "TX Bias low", "TX Power high", "TX Power low",
       "RX Power high", "RX Power low" >>

\* (page[byte + i/8] >> (7 - i % 8)) & 1
FlagBit(page, byte, i) == And1(Shr(page[byte + (i \div 8)], 7 - (i % 8)))

\* Faulty variant: the warning tested first
AlarmLineWarnFirst(s, label, i) ==
    IF FlagBit(s.sfp_diag, WarnByte, i) = 1
    THEN << Line("warn", "SFP{}: {} warning.", alarm[i + 1], <<label>>) >>
    ELSE IF FlagBit(s.sfp_diag, AlarmByte, i) = 1
    THEN << Line("error", "SFP{}: {} alarm.", alarm[i + 1], <<label>>) >>
    ELSE << >>

\* the body of the loop of print_alarms for condition i
AlarmLine(s, label, i) ==
    IF FlagBit(s.sfp_diag, AlarmByte, i) = 1
    THEN << Line("error", "SFP{}: {} alarm.", alarm[i + 1], <<label>>) >>
    ELSE IF FlagBit(s.sfp_diag, WarnByte, i) = 1
    THEN << Line("warn", "SFP{}: {} warning.", alarm[i + 1], <<label>>) >>
    ELSE << >>

RECURSIVE AlarmLines(_, _, _)
AlarmLines(s, label, i) ==
    IF i >= NumAlarms THEN << >>
    ELSE AlarmLine(s, label, i) \o AlarmLines(s, label, i + 1)

\* pub fn print_alarms(&self)
PrintAlarms(s, label) ==
    CHOOSE o \in {[panic |-> label = Panic /\ l # << >>,
                   lines |-> IF label = Panic THEN << >> ELSE l] :
                     l \in {AlarmLines(s, label, 0)}} : TRUE

\* pub fn print_all(&self)
PrintAll(s, label) ==
    IF label = Panic
    THEN [panic |-> TRUE, lines |-> << >>]
    ELSE [panic |-> FALSE,
          lines |->
            [j \in 1 .. DumpLen |->
                Line("trace", "SFP{} data {}: {}", "", <<label, j - 1, s.sfp_data[j - 1]>>)]
            \o [j \in 1 .. DumpLen |->
                Line("trace", "SFP{} diag {}: {}", "", <<label, j - 1, s.sfp_diag[j - 1]>>)]]

\* whether page[i .. end-1] is well-formed UTF-8: str::from_utf8(..) is Ok
RECURSIVE Utf8(_, _, _)
Utf8(page, i, end) ==
    IF i >= end THEN TRUE
    ELSE LET c == page[i]
             Cont(k) == i + k < end /\ page[i + k] \in 128 .. 191
             Second(lo, hi) == i + 1 < end /\ page[i + 1] \in lo .. hi
         IN  CASE c < 128 -> Utf8(page, i + 1, end)
               [] c \in 194 .. 223 -> Cont(1) /\ Utf8(page, i + 2, end)
               [] c = 224 -> Second(160, 191) /\ Cont(2) /\ Utf8(page, i + 3, end)
               [] c \in (225 .. 236) \cup (238 .. 239) ->
                      Cont(1) /\ Cont(2) /\ Utf8(page, i + 3, end)
               [] c = 237 -> Second(128, 159) /\ Cont(2) /\ Utf8(page, i + 3, end)
               [] c = 240 -> Second(144, 191) /\ Cont(2) /\ Cont(3) /\ Utf8(page, i + 4, end)
               [] c \in 241 .. 243 ->
                      Cont(1) /\ Cont(2) /\ Cont(3) /\ Utf8(page, i + 4, end)
               [] c = 244 -> Second(128, 143) /\ Cont(2) /\ Cont(3) /\ Utf8(page, i + 4, end)
               [] OTHER -> FALSE

\* the bytes page[a .. b-1]
Slice(page, a, b) == [j \in 1 .. b - a |-> page[a + j - 1]]

\* one step of print_some: the lines of a run of log calls, or a panic in
\* the arguments of one (str::from_utf8(..).unwrap() on an Err)
Step(ok, lines) == [ok |-> ok, lines |-> IF ok THEN lines ELSE << >>]

\* the five values of one row of the table, as arguments
Row(diag, t, v, c, p1, p2) ==
    CHOOSE a \in {<<x[1].m, x[1].e, x[2].m, x[2].e, x[3].m, x[3].e,
                    x[4].m, x[4].e, x[5].m, x[5].e>> :
                      x \in {<<temperature_convert(Pair(diag, t)),
                               voltage_convert(Pair(diag, v)),
                               current_convert(Pair(diag, c)),
                               power_convert(Pair(diag, p1)),
                               power_convert(Pair(diag, p2))>>}} : TRUE

\* the lines of print_some up to the vendor name
SomeHead(d, label) ==
    << Debug("SFP{} data:", <<label>>),
       Debug("Type: {:#x}", <<d[0]>>),
       Debug("Extended type: {:#x}", <<d[1]>>),
       Debug("Connector: {:#x}", <<d[2]>>),
       Debug("Transceiver fields:", << >>),
       Debug("Bit: 76543210", << >>) >>
    \o [j \in 1 .. 8 |-> Debug("{:3}: {:8b}", <<j + 2, d[j + 2]>>)]
    \o << Debug("Bit rate: {}00 MBit/s", <<d[12]>>),
          Debug("Rate select: {:x}", <<d[13]>>),
          Debug("Supported link length:", << >>),
          Debug("9/125 um fiber: {} km, {}00 m", <<d[14], d[15]>>),
          Debug("50/125 um OM2 fiber: {}0 m", <<d[16]>>),
          Debug("62.5/125 um OM1 fiber: {}0 m", <<d[17]>>),
          Debug("Copper cables: {} m", <<d[18]>>),
          Debug("50/125 um fiber: {}0 m", <<d[19]>>) >>

\* the lines of print_some from the laser wavelength to the compliance byte
SomeSignals(d, label) ==
    << Debug("Laser wavelength: {} nm", <<d[60] * 256 + d[61]>>),
       Debug("Optional signals:", << >>),
       Debug("Bit: 76543210", << >>) >>
    \o [j \in 1 .. 2 |-> Debug("{:3}: {:8b}", <<j + 63, d[j + 63]>>)]
    \o << Debug("Rate select implented: {}", <<And1(Shr(d[65], 5))>>),
          Debug("TX disable implented: {}", <<And1(Shr(d[65], 4))>>),
          Debug("TX fault implented: {}", <<And1(Shr(d[65], 3))>>),
          Debug("Loss of signal implented: {}", <<And1(Shr(d[65], 1))>>),
          Debug("Link margin: min {}%, max {}% ", <<d[67], d[66]>>),
          Debug("Diagnostic monitoring signals: {:#08b}", <<d[CapByte]>>) >>
    \o (IF And1(Shr(d[CapByte], 4)) = 1
        THEN << Line("warn", "SFP{}: External calibration conversion is not implemented, shown values won't be correct!", "", <<label>>) >>
        ELSE << >>)
    \o (IF And1(Shr(d[CapByte], 2)) = 1
        THEN << Line("warn", "SFP{}: Address change for diagnostic monitoring is not implemented!", "", <<label>>) >>
        ELSE << >>)
    \o << Debug("Enhanced options: {:#08b}", <<d[93]>>),
          Debug("SFF-8472 compliance: {:#x}", <<d[ComplByte]>>) >>

\* the lines of print_some in the branch of the modules with diagnostics
SomeDiagnostics(g) ==
    << Debug("Diagnostics:", << >>),
       Debug("\t\tTemp [Â°C]\tVcc [V]\tTX bias [mA]\tTX power [mW]\tRX power [mW]", << >>),
       Debug("+ Alarm: \t{:.2}\t\t{:.2}\t{:.2}\t\t{:.4}\t\t{:.4}", Row(g, 0, 8, 16, 24, 32)),
       Debug("+ Warning: \t{:.2}\t\t{:.2}\t{:.2}\t\t{:.4}\t\t{:.4}", Row(g, 4, 12, 20, 28, 36)),
       Debug("Value: \t{:.2}\t\t{:.2}\t{:.2}\t\t{:.4}\t\t{:.4}", Row(g, 96, 98, 100, 102, 104)),
       Debug("- Warning: \t{:.2}\t\t{:.2}\t{:.2}\t\t{:.4}\t\t{:.4}", Row(g, 6, 14, 22, 30, 38)),
       Debug("- Alarm: \t{:.2}\t\t{:.2}\t{:.2}\t\t{:.4}\t\t{:.4}", Row(g, 2, 10, 18, 26, 34)),
       Debug("Status/Control Bits: {:#08b}", <<g[StatusByte]>>),
       Debug("TX disable: {}", <<And1(Shr(g[StatusByte], 7))>>),
       Debug("Soft TX disable: {}", <<And1(Shr(g[StatusByte], 6))>>),
       Debug("Rate Select 1: {}", <<And1(Shr(g[StatusByte], 5))>>),
       Debug("Rate Select 0: {}", <<And1(Shr(g[StatusByte], 4))>>),
       Debug("Soft Rate Select 0: {}", <<And1(Shr(g[StatusByte], 3))>>),
       Debug("TX Fault: {}", <<And1(Shr(g[StatusByte], 2))>>),
       Debug("RX_LOS: {}", <<And1(Shr(g[StatusByte], 1))>>),
       Debug("Data not ready: {}", <<And1(g[StatusByte])>>) >>
    \o [j \in 1 .. 2 * NumAlarms |->
          IF j % 2 = 1
          THEN Line("debug", "{} alarm value: {}", alarm[(j + 1) \div 2],
                    <<FlagBit(g, AlarmByte, (j - 1) \div 2)>>)
          ELSE Line("debug", "{} warning value: {}", alarm[j \div 2],
                    <<FlagBit(g, WarnByte, (j - 2) \div 2)>>)]

\* the steps of print_some, in program order
SomeSteps(s, label) ==
    << Step(label # Panic, SomeHead(s.sfp_data, label)),
       Step(Utf8(s.sfp_data, 20, 36),
            << Debug("Vendor: {}", Slice(s.sfp_data, 20, 36)) >>),
       Step(Utf8(s.sfp_data, 40, 56),
            << Debug("Part number: {}", Slice(s.sfp_data, 40, 56)) >>),
       Step(Utf8(s.sfp_data, 56, 60),
            << Debug("Revision: {}", Slice(s.sfp_data, 56, 60)) >>),
       Step(Utf8(s.sfp_data, 68, 84),
            << Debug("Serial number: {}", Slice(s.sfp_data, 68, 84)) >>),
       Step(/\ Utf8(s.sfp_data, 84, 86) /\ Utf8(s.sfp_data, 86, 88)
            /\ Utf8(s.sfp_data, 88, 90) /\ Utf8(s.sfp_data, 90, 92),
            << Debug("Date code: {}.{}.20{}, lot: {}", Slice(s.sfp_data, 84, 92)) >>),
       Step(TRUE, SomeSignals(s.sfp_data, label)),
       Step(TRUE,
            IF Gate(s.sfp_data)
            THEN SomeDiagnostics(s.sfp_diag)
            ELSE << Debug("Diagnostic monitoring is not implemented on the module.", << >>) >>) >>

\* the lines of the steps from number k on, up to the first panic
RECURSIVE RunSteps(_, _)
RunSteps(steps, k) ==
    IF k > Len(steps) THEN [panic |-> FALSE, lines |-> << >>]
    ELSE IF ~steps[k].ok THEN [panic |-> TRUE, lines |-> << >>]
    ELSE CHOOSE o \in {[panic |-> rest.panic, lines |-> steps[k].lines \o rest.lines] :
                          rest \in {RunSteps(steps, k + 1)}} : TRUE

\* pub fn print_some(&self)
PrintSome(s, label) ==
    CHOOSE o \in {RunSteps(st, 1) : st \in {SomeSteps(s, label)}} : TRUE

(***************************************************************************)
(* Inputs: what the module memories hold and what the primitives return.   *)
(***************************************************************************)
\* values of the capability byte: bit 2 and bit 6 clear or set
CapValues == {0, 4, 64, 68}

\* values of the compliance byte
ComplValues == {0, 1}

\* an information page with capability byte c and compliance byte b; the
\* other bytes are ASCII on the pages with a compliance byte and any bytes
\* (text fields that are not UTF-8) on those without
InfoPage(c, b) ==
    [i \in 0 .. PageLen - 1 |->
        IF i = CapByte THEN c
        ELSE IF i = ComplByte THEN b
        ELSE IF b = 0 THEN AsU8(3 * i + 1)
        ELSE AsU8(3 * i + 1) % 128]

InfoPages == {InfoPage(c, b) : c \in CapValues, b \in ComplValues}

\* the diagnostic page at two moments (the live values change over time)
DiagPage(g) == [i \in 0 .. PageLen - 1 |-> AsU8(g * i + g)]

DiagPages == {DiagPage(1), DiagPage(2)}

\* the reads, by number, at which an error is injected
FailReads == {0, 1}

\* The inputs of one transaction with the primitives of plan: at most one
\* primitive returns Err; a write is not acknowledged in a transaction
\* without Err, or (combine) in any.
Envs(plan, pages, combine) ==
    LET W == {i \in DOMAIN plan : plan[i].op = "write"}
        R == {i \in DOMAIN plan : plan[i].op = "read"}
        F == {NoFail} \cup (DOMAIN plan \ R)
             \cup {i \in R : Cardinality({j \in R : j < i}) \in FailReads}
        N == {{}} \cup {{w} : w \in W}
        p0 == CHOOSE p \in pages : TRUE
    IN  {e \in [fail : F, nack : N, page : pages] :
            /\ \A w \in e.nack : IF combine THEN e.fail = NoFail \/ w < e.fail
                                 ELSE e.fail = NoFail
            /\ (e.fail # NoFail /\ \A i \in R : e.fail <= i) => e.page = p0}

\* (the inputs do not depend on the mask)
InfoEnvs(s) == Envs(ReadPlan(s, 0, 0, PageLen), InfoPages, FALSE)
DiagEnvs(s) == Envs(ReadDiagPlan(s, 0, 0, PageLen), DiagPages, FALSE)
LiveEnvs(s) == Envs(ReadDiagPlan(s, 0, LiveOff, LiveLen), DiagPages, FALSE)
ProbeEnvs(s) == Envs(CheckAckPlan(s, 0), {Zeros(PageLen)}, TRUE)
SelectEnvs == Envs(SelectPlan(0), {Zeros(PageLen)}, TRUE)

(***************************************************************************)
(* What an operation returned.                                             *)
(***************************************************************************)
NotFound == "SFP module not found."
BusError == "bus error"

Ret(kind, err, ack, data) == [kind |-> kind, err |-> err, ack |-> ack, data |-> data]
RetNone == Ret("none", "", FALSE, Zeros(0))
RetPanic == Ret("panic", "", FALSE, Zeros(0))
RetErr(msg) == Ret("Err", msg, FALSE, Zeros(0))
RetUnit == Ret("Ok", "", FALSE, Zeros(0))
RetBool(b) == Ret("Ok", "", b, Zeros(0))
RetBytes(d) == Ret("bytes", "", FALSE, d)
RetF32(vals) == Ret("f32", "", FALSE, vals)

(***************************************************************************)
(* Initial state: no handle yet; the index the caller passes is fixed.     *)
(***************************************************************************)
InitWith(indices) ==
    /\ hstate = "Unprobed"
    /\ idx \in indices
    /\ sfp = NewSFP(0)
    /\ nops = 0
    /\ op = "none"
    /\ bus = << >>
    /\ ret = RetNone
    /\ log = << >>

\* the port indices of the lifecycle specification
Indices == {0, 7}

Init == InitWith(Indices)

(***************************************************************************)
(* Actions.                                                                *)
(***************************************************************************)
Panicked(o, tr) ==
    /\ hstate' = "Panicked"
    /\ op' = o
    /\ bus' = tr
    /\ ret' = RetPanic
    /\ log' = << >>
    /\ UNCHANGED <<idx, sfp, nops>>

\* new returned Err: no handle
Failed(tr, msg) ==
    /\ hstate' = "Absent"
    /\ op' = "new"
    /\ bus' = tr
    /\ ret' = RetErr(msg)
    /\ log' = << >>
    /\ UNCHANGED <<idx, sfp, nops>>

\* new returned Ok(sfp)
Constructed(s, tr) ==
    /\ hstate' = "Active"
    /\ sfp' = s
    /\ op' = "new"
    /\ bus' = tr
    /\ ret' = RetUnit
    /\ log' = << >>
    /\ UNCHANGED <<idx, nops>>

\* new after check_ack returned Ok(true): dump_data, the gate, dump_diag
Fetch(s0, mask, c) ==
    \E e2 \in InfoEnvs(s0) :
      \E d \in {DumpData(s0, mask, e2)} :
        IF Gate(d.sfp.sfp_data)
        THEN \E e3 \in DiagEnvs(s0) :
               \E g \in {DumpDiag(d.sfp, mask, e3)} :
                 Constructed(g.sfp, c.tr \o d.tr \o g.tr)
        ELSE Constructed(d.sfp, c.tr \o d.tr)

\* Faulty variant: new without the test of the acknowledge
ProbeVerdictNoAck(c) ==
    CASE c.st = "panic" -> "panic"
      [] c.st = "err" -> "err"
      [] OTHER -> "present"

\* if !sfp.check_ack()? { return Err("SFP module not found."); }
ProbeVerdict(c) ==
    CASE c.st = "panic" -> "panic"
      [] c.st = "err" -> "err"
      [] c.st = "ok" /\ ~c.ack -> "absent"
      [] OTHER -> "present"

\* pub fn new(index: u8) -> Result<Self, &str>
New ==
    /\ hstate = "Unprobed"
    /\ \E port \in PortOutcomes(idx) :
         IF port = Panic
         THEN Panicked("new", << >>)
         ELSE \E mask \in MaskOutcomes(port), e1 \in ProbeEnvs(NewSFP(port)) :
                \E c \in {CheckAck(NewSFP(port), mask, e1)} :
                  CASE ProbeVerdict(c) = "panic" -> Panicked("new", c.tr)
                    [] ProbeVerdict(c) = "err" -> Failed(c.tr, BusError)
                    [] ProbeVerdict(c) = "absent" -> Failed(c.tr, NotFound)
                    [] OTHER -> Fetch(NewSFP(port), mask, c)

\* an operation on the handle ran and returned v
Returned(o, r, v) ==
    IF r.st = "panic"
    THEN Panicked(o, r.tr)
    ELSE /\ op' = o
         /\ bus' = r.tr
         /\ ret' = v
         /\ sfp' = r.sfp
         /\ log' = << >>
         /\ nops' = nops + 1
         /\ UNCHANGED <<hstate, idx>>

CallDumpData ==
    /\ hstate = "Active" /\ nops < MaxOps
    /\ \E mask \in MaskOutcomes(sfp.port), e \in InfoEnvs(sfp) :
         \E r \in {DumpData(sfp, mask, e)} :
           Returned("dump_data", r, RetBytes(r.val))

CallDumpDiag ==
    /\ hstate = "Active" /\ nops < MaxOps
    /\ \E mask \in MaskOutcomes(sfp.port), e \in DiagEnvs(sfp) :
         \E r \in {DumpDiag(sfp, mask, e)} :
           Returned("dump_diag", r, RetBytes(r.val))

CallReadDiagnosticData ==
    /\ hstate = "Active" /\ nops < MaxOps
    /\ \E mask \in MaskOutcomes(sfp.port), e \in LiveEnvs(sfp) :
         \E r \in {ReadDiagnosticData(sfp, mask, e)} :
           Returned("read_diagnostic_data", r, RetBytes(r.val))

CallCheckAck ==
    /\ hstate = "Active" /\ nops < MaxOps
    /\ \E mask \in MaskOutcomes(sfp.port), e \in ProbeEnvs(sfp) :
         \E c \in {CheckAck(sfp, mask, e)} :
           Returned("check_ack", [st |-> c.st, tr |-> c.tr, sfp |-> sfp],
                    IF c.st = "err" THEN RetErr(BusError) ELSE RetBool(c.ack))

\* a log operation ran: it calls no bus primitive and assigns no field
Queried(o, out) ==
    /\ hstate' = IF out.panic THEN "Panicked" ELSE hstate
    /\ op' = o
    /\ bus' = << >>
    /\ ret' = IF out.panic THEN RetPanic ELSE RetUnit
    /\ log' = out.lines
    /\ nops' = nops + 1
    /\ UNCHANGED <<idx, sfp>>

CallPrintAlarms ==
    /\ hstate = "Active" /\ nops < MaxOps
    /\ \E label \in PortLabels(sfp.port) :
         \E out \in {PrintAlarms(sfp, label)} : Queried("print_alarms", out)

CallPrintAll ==
    /\ hstate = "Active" /\ nops < MaxOps
    /\ \E label \in PortLabels(sfp.port) :
         \E out \in {PrintAll(sfp, label)} : Queried("print_all", out)

CallPrintSome ==
    /\ hstate = "Active" /\ nops < MaxOps
    /\ \E label \in PortLabels(sfp.port) :
         \E out \in {PrintSome(sfp, label)} : Queried("print_some", out)

Next ==
    \/ New
    \/ CallDumpData
    \/ CallDumpDiag
    \/ CallReadDiagnosticData
    \/ CallCheckAck
    \/ CallPrintAlarms
    \/ CallPrintAll
    \/ CallPrintSome

Spec == Init /\ [][Next]_vars

(***************************************************************************)
(* The switch selection alone, for every index a u8 holds.                 *)
(***************************************************************************)
IndexRange == 0 .. 255

InitSel == InitWith(IndexRange)

\* select on the handle new builds for idx
ApplySelect ==
    /\ hstate = "Unprobed"
    /\ \E port \in PortOutcomes(idx) :
         IF port = Panic
         THEN Panicked("select", << >>)
         ELSE \E mask \in MaskOutcomes(port), e \in SelectEnvs :
                \E r \in {Select(mask, e)} :
                  IF r.st = "panic"
                  THEN Panicked("select", << >>)
                  ELSE /\ hstate' = "Selected"
                       /\ sfp' = NewSFP(port)
                       /\ op' = "select"
                       /\ bus' = r.tr
                       /\ ret' = IF r.st = "err" THEN RetErr(BusError) ELSE RetUnit
                       /\ log' = << >>
                       /\ UNCHANGED <<idx, nops>>

NextSel == ApplySelect

SpecSel == InitSel /\ [][NextSel]_vars

(***************************************************************************)
(* print_alarms alone, on a handle whose diagnostic page holds alarm and   *)
(* warning bytes drawn from the sets below.                                *)
(***************************************************************************)
\* values of the bytes 112 and 116: no bit, each single bit, mixed, all
FlagValues0 == {0, 1, 2, 4, 8, 16, 32, 64, 128, 85, 170, 255}

\* values of the bytes 113 and 117: the bits 7 and 6 and the unused bits
FlagValues1 == {0, 64, 128, 192, 63}

FlagPage(a0, a1, w0, w1) ==
    [i \in 0 .. PageLen - 1 |->
        IF i = AlarmByte THEN a0
        ELSE IF i = AlarmByte + 1 THEN a1
        ELSE IF i = WarnByte THEN w0
        ELSE IF i = WarnByte + 1 THEN w1
        ELSE 0]

\* a handle of index 0 that holds the pages info and diag
HandleWith(info, diag) ==
    /\ hstate = "Active"
    /\ idx = 0
    /\ sfp = [NewSFP(PortBase) EXCEPT !.sfp_data = info, !.sfp_diag = diag]
    /\ nops = 0
    /\ op = "none"
    /\ bus = << >>
    /\ ret = RetNone
    /\ log = << >>

InitAlarm ==
    \E a0 \in FlagValues0, w0 \in FlagValues0, a1 \in FlagValues1, w1 \in FlagValues1 :
        HandleWith(InfoPage(64, 1), FlagPage(a0, a1, w0, w1))

NextAlarm == CallPrintAlarms

SpecAlarm == InitAlarm /\ [][NextAlarm]_vars

(***************************************************************************)
(* The conversions alone, applied to every pair of bytes.                  *)
(***************************************************************************)
ByteRange == 0 .. 255

\* a diagnostic page with the pair (a, b) as its first live value
RawPage(a, b) ==
    [i \in 0 .. PageLen - 1 |->
        IF i = LiveOff THEN a ELSE IF i = LiveOff + 1 THEN b ELSE 0]

InitConv ==
    \E a \in ByteRange, b \in ByteRange :
        HandleWith(InfoPage(64, 1), RawPage(a, b))

\* the four conversions applied to &self.sfp_diag[96..98]
Convert ==
    /\ hstate = "Active" /\ op = "none"
    /\ \E v \in {Pair(sfp.sfp_diag, LiveOff)} :
         ret' = RetF32(<< temperature_convert(v), voltage_convert(v),
                         current_convert(v), power_convert(v) >>)
    /\ op' = "convert"
    /\ bus' = << >>
    /\ log' = << >>
    /\ UNCHANGED <<hstate, idx, sfp, nops>>

NextConv == Convert

SpecConv == InitConv /\ [][NextConv]_vars

(***************************************************************************)
(* Properties.                                                             *)
(***************************************************************************)
\* the primitives of bus issued by transaction function t
Txn(t) == SelectSeq(bus, LAMBDA p : p.txn = t)

AllOk(tr) == \A i \in 1 .. Len(tr) : tr[i].res = "ok"
HasErr(tr) == \E i \in 1 .. Len(tr) : tr[i].res = "err"
IsWrite(p, byte) == p.op = "write" /\ p.v = byte

\* bit k of byte b
Bit(b, k) == (b \div (2 ^ k)) % 2

\* the capability gate as the specification words it
GateHolds(info) ==
    Bit(info[92], 2) = 0 /\ (Bit(info[92], 6) = 1 \/ info[94] # 0)

\* C1: a fault-free information-page read issues exactly: the two switch
\* writes, start, write(0xA0), write(register offset 0), restart,
\* write(0xA1), 256 byte reads, stop.
C1_ReadSequence ==
    \A r \in {Txn("read")} :
        (r # << >> /\ AllOk(r)) =>
            /\ Len(r) = 256 + 8
            /\ r[1].op = "switch" /\ r[2].op = "switch"
            /\ r[3].op = "start"
            /\ IsWrite(r[4], 160)
            /\ IsWrite(r[5], 0)
            /\ r[6].op = "restart"
            /\ IsWrite(r[7], 161)
            /\ \A i \in 8 .. 263 : r[i].op = "read"
            /\ r[264].op = "stop"

\* a fault-free dump_data ran
C1_Witness == op = "dump_data" /\ Len(bus) = 264 /\ AllOk(bus)

\* C2: in a diagnostic transaction the writes are 0xA2, the register offset
\* (0 or 96) and 0xA3, in this order; 0xA0 and 0xA1 are never written.
C2_DiagAddress ==
    \A d \in {Txn("read_diag")} :
        \A i \in 1 .. Len(d) :
            d[i].op = "write" =>
                /\ d[i].v \notin {160, 161}
                /\ i \in {4, 5, 7}
                /\ i = 4 => d[i].v = 162
                /\ i = 5 => d[i].v \in {0, 96}
                /\ i = 7 => d[i].v = 163

\* a complete live-value transaction (offset 96, 22 bytes) ran
C2_Witness ==
    /\ op = "read_diagnostic_data" /\ Len(bus) = 22 + 8 /\ AllOk(bus)
    /\ IsWrite(bus[5], 96)

\* C3 (as claimed): a primitive of read or read_diag that fails, or a write
\* that is not acknowledged, is the last primitive of its transaction.
C3_AbortOnAnyFailure ==
    \A t \in {"read", "read_diag"} :
        \A r \in {Txn(t)} :
            \A i \in 1 .. Len(r) : r[i].res # "ok" => i = Len(r)

\* C4 (as claimed): a page fetch whose transaction failed returns an error
\* to its caller, and new issues nothing after a failed information fetch.
C4_FetchFailurePropagates ==
    /\ (op \in {"dump_data", "dump_diag", "read_diagnostic_data"} /\ HasErr(bus))
           => ret.kind = "Err"
    /\ (op = "new" /\ HasErr(Txn("read")))
           => (ret.kind = "Err" /\ Txn("read_diag") = << >>)

\* the probe's address write was not acknowledged
ProbeNack ==
    /\ op = "new" /\ Len(bus) >= 4
    /\ bus[4].txn = "check_ack" /\ bus[4].op = "write" /\ bus[4].res = "nack"

\* C5 (as claimed): an unacknowledged probe makes new return the
\* module-not-found error, with no handle and nothing issued after the
\* probe's stop.
C5_NotFoundOnNack ==
    ProbeNack =>
        /\ hstate = "Absent"
        /\ ret.kind = "Err" /\ ret.err = "SFP module not found."
        /\ \A i \in 1 .. Len(bus) : bus[i].txn = "check_ack"

\* C5 (amended): an unacknowledged probe makes new return an error, the
\* module-not-found error when the probe's stop succeeded and the error of
\* the stop otherwise, with no handle and nothing issued after the stop.
C5_ErrorOnNack ==
    ProbeNack =>
        /\ hstate = "Absent"
        /\ ret.kind = "Err"
        /\ Len(bus) = 5 /\ bus[5].op = "stop"
        /\ bus[5].res = "ok" => ret.err = "SFP module not found."
        /\ bus[5].res = "err" => ret.err # "SFP module not found."
        /\ \A i \in 1 .. Len(bus) : bus[i].txn = "check_ack"

\* new met an unacknowledged probe and reported the module as not found
C5_Witness == ProbeNack /\ ret.err = "SFP module not found." /\ bus[5].res = "ok"

\* C6: new, once the probe is acknowledged, fetches the information page,
\* and issues a diagnostic transaction after it exactly when the gate holds
\* on the fetched page.
C6_GatedDiagFetch ==
    (op = "new" /\ hstate = "Active") =>
        /\ Txn("read") # << >>
        /\ Txn("read_diag") # << >> <=> GateHolds(sfp.sfp_data)
        /\ \A i, j \in 1 .. Len(bus) :
              (bus[i].txn = "read" /\ bus[j].txn = "read_diag") => i < j

\* new fetched the diagnostic page for a module that declares it only by
\* its compliance byte
C6_Witness ==
    /\ op = "new" /\ hstate = "Active"
    /\ sfp.sfp_data[92] = 0 /\ sfp.sfp_data[94] # 0
    /\ Txn("read_diag") # << >>

\* C7 (as claimed): on a handle whose cached information page fails the
\* gate, dump_diag and read_diagnostic_data write no address 0xA2.
C7_NoDiagTxnWhenGateFails ==
    (/\ hstate = "Active"
     /\ op \in {"dump_diag", "read_diagnostic_data"}
     /\ ~GateHolds(sfp.sfp_data))
        => \A i \in 1 .. Len(bus) : ~IsWrite(bus[i], 162)

\* C8 (as claimed): with the gate failing, the answer of
\* read_diagnostic_data and the diagnostic page of a fresh handle are not
\* an all-zero block.
C8_UnavailableIsDistinct ==
    (hstate = "Active" /\ ~GateHolds(sfp.sfp_data)) =>
        /\ op = "read_diagnostic_data" => \E i \in 0 .. 21 : ret.data[i] # 0
        /\ op = "new" => \E i \in 0 .. 255 : sfp.sfp_diag[i] # 0

\* C9: a live-value refresh leaves every byte of the cached diagnostic page
\* outside [96,118) as it was, and the cached information page unchanged.
C9_RefreshFrame ==
    [][op' = "read_diagnostic_data" =>
          /\ \A i \in (0 .. 255) \ (96 .. 117) : sfp'.sfp_diag[i] = sfp.sfp_diag[i]
          /\ sfp'.sfp_data = sfp.sfp_data]_vars

\* a refresh replaced the live values of a fully fetched page: byte 0 is of
\* the first reading of the page, byte 96 of the second
C9_Witness ==
    /\ op = "read_diagnostic_data" /\ AllOk(bus) /\ bus # << >>
    /\ sfp.sfp_diag[0] = 1 /\ sfp.sfp_diag[95] = 96 /\ sfp.sfp_diag[118] = 119
    /\ sfp.sfp_diag[96] = 194 /\ sfp.sfp_diag[117] = 236

\* exactly one of the 16 bits of x is set
OneBit(x) == Cardinality({k \in 0 .. 15 : Bit(x, k) = 1}) = 1

\* C10: for index 0..7 select writes the low byte of 1 << (8 + index) to
\* chip 0x70 and the high byte to chip 0x71; the 16-bit value has one bit
\* set.
C10_SelectMask ==
    (op = "select" /\ hstate = "Selected" /\ idx <= 7) =>
        /\ bus[1].op = "switch" /\ bus[1].a = 112
        /\ bus[1].res = "ok" => Len(bus) = 2
        /\ Len(bus) = 2 =>
              /\ bus[2].op = "switch" /\ bus[2].a = 113
              /\ bus[1].v \in 0 .. 255 /\ bus[2].v \in 0 .. 255
              /\ bus[1].v + 256 * bus[2].v = 2 ^ (8 + idx)
              /\ OneBit(bus[1].v + 256 * bus[2].v)

\* select ran to its end for index 7
C10_Witness ==
    /\ op = "select" /\ idx = 7 /\ ret.kind = "Ok"
    /\ Len(bus) = 2 /\ bus[2].v = 128

\* C11 (as claimed): a select in which a switch write failed returns an
\* error, no start follows, and no switch write of that call that succeeded
\* wrote a selection (a byte other than 0) into a switch register.
C11_FailedSelectLeavesNothing ==
    (op = "select" /\ HasErr(bus)) =>
        /\ ret.kind = "Err"
        /\ \A i \in 1 .. Len(bus) : bus[i].op # "start"
        /\ \A i \in 1 .. Len(bus) :
              (bus[i].op = "switch" /\ bus[i].res = "ok") => bus[i].v = 0

\* C12: every start on the bus comes directly after the two switch writes
\* of select, to chip 0x70 and to chip 0x71, which carry the mask of this
\* handle's port and were issued by the same transaction function.
C12_SelectBeforeStart ==
    \A i \in 1 .. Len(bus) :
        bus[i].op = "start" =>
            /\ i >= 3
            /\ bus[i - 2].op = "switch" /\ bus[i - 2].a = 112
            /\ bus[i - 1].op = "switch" /\ bus[i - 1].a = 113
            /\ bus[i - 2].res = "ok" /\ bus[i - 1].res = "ok"
            /\ bus[i - 2].txn = bus[i].txn /\ bus[i - 1].txn = bus[i].txn
            /\ bus[i - 2].v + 256 * bus[i - 1].v = 2 ^ (8 + idx)

\* new ran its three transactions: the probe, the information read and the
\* diagnostic read
C12_Witness ==
    /\ op = "new" /\ hstate = "Active"
    /\ Cardinality({i \in 1 .. Len(bus) : bus[i].op = "start"}) = 3

\* C13: in a read of n bytes (256, or 22 at register offset 96) the byte
\* reads number 0 .. n-2 are issued with acknowledge, and read number n-1,
\* and no other, without.
C13_NackOnLastByteOnly ==
    \A t \in {"read", "read_diag"} :
        \A r \in {Txn(t)} :
            \A i \in 1 .. Len(r) :
                r[i].op = "read" =>
                    \E n \in {IF r[5].v = 96 THEN 22 ELSE 256} :
                        /\ i - 8 \in 0 .. n - 1
                        /\ r[i].v = 1 <=> i - 8 <= n - 2
                        /\ r[i].v = 0 <=> i - 8 = n - 1

\* a complete 22-byte read: byte 20 with acknowledge, byte 21 without,
\* then the stop
C13_Witness ==
    /\ op = "read_diagnostic_data" /\ Len(bus) = 30
    /\ bus[28].op = "read" /\ bus[28].v = 1
    /\ bus[29].op = "read" /\ bus[29].v = 0
    /\ bus[30].op = "stop"

\* C14 (as claimed): a handle returned by new has an acknowledged probe and
\* an information page that is the 256 bytes the module delivered, read by a
\* transaction without failure.
C14_HandleFullyInitialized ==
    (op = "new" /\ hstate = "Active") =>
        /\ bus[4].op = "write" /\ bus[4].res = "ok"
        /\ ~HasErr(Txn("read"))
        /\ ReadsDone(Txn("read")) = 256
        /\ sfp.sfp_data \in InfoPages

\* C19 (as claimed): when an operation has returned, every start it issued
\* is followed by a stop of the same transaction.
C19_StartsAreStopped ==
    \A i \in 1 .. Len(bus) :
        (bus[i].op = "start" /\ bus[i].res = "ok") =>
            \E j \in i + 1 .. Len(bus) :
                bus[j].op = "stop" /\ bus[j].txn = bus[i].txn

\* C20 (as claimed): a page fetch in which a primitive failed leaves both
\* cached pages as they were before the call.
C20_PageKeptOnFailure ==
    [][(op' \in {"dump_data", "dump_diag", "read_diagnostic_data"} /\ HasErr(bus'))
          => sfp' = sfp]_vars

\* the masks select writes on the handle of new(j), over the builds
MasksOf(j) ==
    UNION {MaskOutcomes(p) \ {Panic} : p \in PortOutcomes(j) \ {Panic}}

\* C17 (as claimed): for every index of a u8, the 16-bit mask select writes
\* has exactly one bit set and is written for no other index.
C17_DistinctMasks ==
    (op = "select" /\ hstate = "Selected" /\ Len(bus) = 2) =>
        \E w \in {bus[1].v + 256 * bus[2].v} :
            /\ OneBit(w)
            /\ \A j \in IndexRange \ {idx} : w \notin MasksOf(j)

\* the lines of the log of level lvl that name condition i
Reports(lvl, i) ==
    {j \in 1 .. Len(log) : log[j].lvl = lvl /\ log[j].name = alarm[i + 1]}

\* C15: for each condition i in 0 .. 9, with bit 7 - i % 8 of byte
\* 112 + i/8 as alarm bit and of byte 116 + i/8 as warning bit,
\* print_alarms gives one alarm line and no warning line when the alarm bit
\* is set, one warning line and no alarm line when only the warning bit is
\* set, and no line when both are clear.
C15_AlarmPrecedence ==
    op = "print_alarms" =>
        \A i \in 0 .. 9 :
            \E a \in {Bit(sfp.sfp_diag[112 + (i \div 8)], 7 - (i % 8))},
               w \in {Bit(sfp.sfp_diag[116 + (i \div 8)], 7 - (i % 8))} :
                /\ a = 1 =>
                      /\ Cardinality(Reports("error", i)) = 1
                      /\ Reports("warn", i) = {}
                /\ (a = 0 /\ w = 1) =>
                      /\ Cardinality(Reports("warn", i)) = 1
                      /\ Reports("error", i) = {}
                /\ (a = 0 /\ w = 0) =>
                      /\ Reports("error", i) = {}
                      /\ Reports("warn", i) = {}

\* temperature-high with alarm and warning bit set is reported as alarm
\* only, and rx-power-low with the warning bit alone as warning
C15_Witness ==
    /\ op = "print_alarms"
    /\ sfp.sfp_diag[112] = 128 /\ sfp.sfp_diag[116] = 128
    /\ sfp.sfp_diag[113] = 0 /\ sfp.sfp_diag[117] = 64
    /\ Len(log) = 2
    /\ log[1].lvl = "error" /\ log[1].name = "Temperature high"
    /\ log[2].lvl = "warn" /\ log[2].name = "RX Power low"

\* C16: print_alarms, print_some and print_all issue no bus primitive and
\* leave both cached pages as they were; no operation on a handle but
\* dump_data changes the cached information page.
C16_QueryFrame ==
    [][/\ op' \in {"print_alarms", "print_some", "print_all"}
            => (bus' = << >> /\ sfp' = sfp)
       /\ op' \in {"read_diagnostic_data", "dump_diag", "check_ack"}
            => sfp'.sfp_data = sfp.sfp_data]_vars

\* print_some ran on a handle with both pages fetched and gave the table
\* of the diagnostics to the log
C16_Witness ==
    /\ op = "print_some" /\ hstate = "Active"
    /\ sfp.sfp_data[0] # 0 /\ sfp.sfp_diag[0] # 0
    /\ \E j \in 1 .. Len(log) : log[j].msg = "Diagnostics:"

\* Products beyond 2^31 are held as hi * 4096 + lo with 0 <= lo < 4096.
\* m * d, for 0 <= m <= 2^24 and 0 < d <= 10000
Times(m, d) ==
    [hi |-> (m \div 4096) * d + (((m % 4096) * d) \div 4096),
     lo |-> ((m % 4096) * d) % 4096]

\* v * 2^e, for 0 <= v < 2^16
Shifted(v, e) ==
    IF e >= 12
    THEN [hi |-> v * (2 ^ (e - 12)), lo |-> 0]
    ELSE [hi |-> (v * (2 ^ e)) \div 4096, lo |-> (v * (2 ^ e)) % 4096]

\* |x - y| <= bound, for a bound below 4 * 4096
Within(x, y, bound) ==
    /\ x.hi - y.hi \in -4 .. 4
    /\ (x.hi - y.hi) * 4096 + x.lo - y.lo \in -bound .. bound

\* the f32 x times d is exactly v
ScaledIs(x, d, v) == x.m >= 0 /\ Times(x.m, d) = Shifted(v, x.e)

\* the f32 x is v / d to the precision of an f32: it differs from the
\* quotient by at most the quotient times 2^-24
ScaledNear(x, d, v) ==
    /\ x.m \in 0 .. 2 ^ 24
    /\ Within(Times(x.m, d), Shifted(v, x.e), Shifted(v, x.e).hi \div 4096)

\* the temperature x times 256 is signed8(a) * 256 + b
TemperatureIs(x, a, b) ==
    x.m * 256 = ((IF a >= 128 THEN a - 256 ELSE a) * 256 + b) * (2 ^ x.e)

\* C18 (as claimed): for every pair of bytes, temperature * 256 =
\* signed8(raw[0]) * 256 + raw[1], and voltage * 10000 = power * 10000 =
\* current * 500 = raw[0] * 256 + raw[1], exactly.
C18_ExactMaps ==
    op = "convert" =>
        \E a \in {sfp.sfp_diag[96]}, b \in {sfp.sfp_diag[97]} :
            /\ TemperatureIs(ret.data[1], a, b)
            /\ ScaledIs(ret.data[2], 10000, a * 256 + b)
            /\ ScaledIs(ret.data[3], 500, a * 256 + b)
            /\ ScaledIs(ret.data[4], 10000, a * 256 + b)

\* C18 (amended): for every pair of bytes, temperature * 256 =
\* signed8(raw[0]) * 256 + raw[1] exactly; voltage, power and current are
\* the quotients (raw[0] * 256 + raw[1]) / 10000, / 10000 and / 500 to the
\* precision of an f32 (relative error at most 2^-24), exact when the
\* quotient is an f32, as for 0 and for current at 0xFFFF / 500 = 131.07
\* not; [0x19,0x80] gives 25.5 and [0x0C,0x80] gives a voltage that is
\* 0.3200 to four decimals (x * 10000 is 3200 to less than a half: to
\* 4096 / 2^e with e >= 14).
C18_MapsToF32Precision ==
    op = "convert" =>
        \E a \in {sfp.sfp_diag[96]}, b \in {sfp.sfp_diag[97]} :
            /\ TemperatureIs(ret.data[1], a, b)
            /\ ScaledNear(ret.data[2], 10000, a * 256 + b)
            /\ ScaledNear(ret.data[3], 500, a * 256 + b)
            /\ ScaledNear(ret.data[4], 10000, a * 256 + b)
            /\ ret.data[4] = ret.data[2]
            /\ (a * 256 + b) % 625 = 0 => ScaledIs(ret.data[2], 10000, a * 256 + b)
            /\ (a * 256 + b) % 125 = 0 => ScaledIs(ret.data[3], 500, a * 256 + b)
            /\ (a = 25 /\ b = 128) => ret.data[1] = [m |-> 51, e |-> 1]
            /\ (a = 12 /\ b = 128) =>
                  /\ ret.data[2].e \in 14 .. 30
                  /\ Within(Times(ret.data[2].m, 10000), Shifted(3200, ret.data[2].e), 4096)

\* the pair [0x0C,0x80] was converted: the voltage is the f32 next to 0.32,
\* 5368709 / 2^24, and the temperature is 12.5
C18_Witness ==
    /\ op = "convert"
    /\ sfp.sfp_diag[96] = 12 /\ sfp.sfp_diag[97] = 128
    /\ ret.data[1] = [m |-> 25, e |-> 1]
    /\ ret.data[2] = [m |-> 5368709, e |-> 24]

====
